---- MODULE Spec2Model ----
(***************************************************************************)
(* Model of gangbot.py: a Flask application over a SQLite database with    *)
(* two tables (Task, Bid), three mutating/querying routes (create_task,    *)
(* submit_bid, evaluate_bids) and a background job (close_expired_tasks)   *)
(* run by an APScheduler BackgroundScheduler.                              *)
(*                                                                         *)
(* Granularity: every database statement that the code issues separately  *)
(* is a separate step, so the sweep can interleave with a request between  *)
(* its find_task() and its commit.  One request thread is modelled at a    *)
(* time next to the scheduler's job thread.  response is what the view      *)
(* function returns.                                                       *)
(*                                                                         *)
(* Abstractions: Task.title and Task.description are stored and echoed but *)
(* never read by any decision, and are left out.  Times are integers.      *)
(* Prices and completion times are small integers.  SQLite does not        *)
(* enforce FOREIGN KEY constraints unless PRAGMA foreign_keys is switched  *)
(* on, which the program never does; the model follows that default.       *)
(* The field gen of a Task and task_gen of a Bid are history fields that   *)
(* the program does not have: gen numbers the Task rows in creation order  *)
(* (never reused, unlike id), task_gen remembers the Task row a Bid was    *)
(* submitted against.  No action reads them.                               *)
(***************************************************************************)
EXTENDS Integers, Sequences, FiniteSets, TLC

\* ---- bounds of the model ------------------------------------------------
MaxTime == 1
MaxTasks == 2
MaxBids == 2

\* ---- input domains ------------------------------------------------------
Times == 0..MaxTime
TaskIds == 1..MaxTasks
Criterias == {"lowest price", "fastest completion", "lowest_price"}
Bidders == {"A"}
Prices == {-1, 1}
CompletionTimes == {0, 1}

VARIABLES
  now,            \* datetime.utcnow()
  tasks,          \* rows of table task
  bids,           \* rows of table bid
  nextGen,        \* history: number of Task rows created so far + 1
  scheduler,      \* state of the BackgroundScheduler
  reqOp,          \* the view function the request thread is in
  reqPc,          \* its position
  reqTaskId,      \* URL parameter task_id
  reqTask,        \* local variable task
  reqData,        \* request.json
  task_bids,      \* local variable task_bids of evaluate_bids
  winner,         \* local variable winner of evaluate_bids
  response,       \* what the view function returned
  sweepPc,        \* position of the job thread in close_expired_tasks
  sweepNow,       \* local variable now of close_expired_tasks
  expired_tasks,  \* local variable expired_tasks
  closed          \* the count printed by close_expired_tasks

vars == <<now, tasks, bids, nextGen, scheduler, reqOp, reqPc, reqTaskId,
          reqTask, reqData, task_bids, winner, response, sweepPc, sweepNow,
          expired_tasks, closed>>

reqVars == <<reqOp, reqPc, reqTaskId, reqTask, reqData, task_bids, winner, response>>
sweepVars == <<sweepPc, sweepNow, expired_tasks, closed>>

\* ---- rows ---------------------------------------------------------------
Task(id, deadline, criteria, created_at, gen) ==
  [id |-> id, deadline |-> deadline, criteria |-> criteria,
   created_at |-> created_at, gen |-> gen]

Bid(id, task_id, bidder, price, completion_time, submitted_at, task_gen) ==
  [id |-> id, task_id |-> task_id, bidder |-> bidder, price |-> price,
   completion_time |-> completion_time, submitted_at |-> submitted_at,
   task_gen |-> task_gen]

NoTask == Task(0, 0, "", 0, 0)
NoBid == Bid(0, 0, "", 0, 0, 0, 0)
NoData == [kind |-> "none"]
NoItem == [id |-> 0]
NoResponse == [status |-> 0, error |-> "", item |-> NoItem]

Max(S) == CHOOSE x \in S : \A y \in S : y <= x

\* INTEGER PRIMARY KEY without AUTOINCREMENT: SQLite picks max(rowid) + 1,
\* and 1 for an empty table, so the id of a deleted last row is handed out again.
NextRowid(rows) == IF rows = {} THEN 1 ELSE Max({r.id : r \in rows}) + 1

\* variant of find_task that ignores the id and returns any stored row
find_task_any(task_id) ==
  IF tasks # {} THEN CHOOSE t \in tasks : TRUE ELSE NoTask

\* Task.query.get(task_id)
find_task(task_id) ==
  IF \E t \in tasks : t.id = task_id
    THEN CHOOSE t \in tasks : t.id = task_id
    ELSE NoTask

\* variant of FilterByTaskId that forgets the filter
FilterByTaskIdUnfiltered(task_id) == bids

\* Bid.query.filter_by(task_id=task_id): the rows, as a set
FilterByTaskId(task_id) == {b \in bids : b.task_id = task_id}

\* .all() of a SELECT without ORDER BY: the rows in an order SQL leaves open
Orderings(S) ==
  {s \in [1..Cardinality(S) -> S] : \A i, j \in 1..Cardinality(S) : i # j => s[i] # s[j]}

\* variant of PriceKey that reads the other column
PriceKeySwapped(x) == x.completion_time

\* lambda x: x.price
PriceKey(x) == x.price

\* variant of CompletionKey that reads the other column
CompletionKeySwapped(x) == x.price

\* lambda x: x.completion_time
CompletionKey(x) == x.completion_time

\* Python's min(seq, key=...), keys[i] being the key of seq[i]: the first
\* element whose key is minimal
PyMin(seq, keys) ==
  seq[CHOOSE i \in 1..Len(seq) :
        /\ \A j \in 1..Len(seq) : keys[i] <= keys[j]
        /\ \A j \in 1..(i - 1) : keys[j] > keys[i]]

\* the JSON bodies
TaskJson(t) == [id |-> t.id, deadline |-> t.deadline, criteria |-> t.criteria]

BidJson(b) ==
  [id |-> b.id, task_id |-> b.task_id, bidder |-> b.bidder, price |-> b.price,
   completion_time |-> b.completion_time]

WinnerJson(b) ==
  [id |-> b.id, bidder |-> b.bidder, price |-> b.price,
   completion_time |-> b.completion_time]

Reply(status, error, item) == [status |-> status, error |-> error, item |-> item]

\* ---- state after import of the module -----------------------------------
Init ==
  /\ now = 0
  /\ tasks = {}
  /\ bids = {}
  /\ nextGen = 1
  /\ scheduler = "running"
  /\ reqOp = "none"
  /\ reqPc = "idle"
  /\ reqTaskId = 0
  /\ reqTask = NoTask
  /\ reqData = NoData
  /\ task_bids = <<>>
  /\ winner = NoBid
  /\ response = NoResponse
  /\ sweepPc = "idle"
  /\ sweepNow = 0
  /\ expired_tasks = {}
  /\ closed = 0

\* ---- the clock ----------------------------------------------------------
Tick ==
  /\ now < MaxTime
  /\ now' = now + 1
  /\ UNCHANGED <<tasks, bids, nextGen, scheduler, reqVars, sweepVars>>

\* ---- POST /tasks --------------------------------------------------------
\* data['deadline'] parses, all keys present: the row is inserted and committed
CreateTask ==
  /\ reqPc = "idle"
  /\ nextGen <= MaxTasks
  /\ \E deadline \in Times, criteria \in Criterias :
       LET task == Task(NextRowid(tasks), deadline, criteria, now, nextGen) IN
       /\ tasks' = tasks \cup {task}
       /\ reqTask' = task
       /\ reqData' = [kind |-> "task", deadline |-> deadline, criteria |-> criteria]
       /\ response' = Reply(201, "", TaskJson(task))
  /\ nextGen' = nextGen + 1
  /\ reqOp' = "create_task"
  /\ reqPc' = "teardown"
  /\ reqTaskId' = 0
  /\ UNCHANGED <<now, bids, scheduler, task_bids, winner, sweepVars>>

\* a key is missing or the deadline does not match the format: the view raises
CreateTaskRaises ==
  /\ reqPc = "idle"
  /\ reqOp' = "create_task"
  /\ reqPc' = "teardown"
  /\ reqTaskId' = 0
  /\ reqTask' = NoTask
  /\ reqData' = [kind |-> "malformed"]
  /\ response' = Reply(500, "exception", NoItem)
  /\ UNCHANGED <<now, tasks, bids, nextGen, scheduler, task_bids, winner, sweepVars>>

\* ---- POST /tasks/<task_id>/bids -----------------------------------------
\* lines 80-82: look the task up, answer 404 when it is absent
SubmitBidFind ==
  /\ reqPc = "idle"
  /\ \E task_id \in TaskIds :
       LET task == find_task(task_id) IN
       /\ reqTaskId' = task_id
       /\ reqTask' = task
       /\ IF task = NoTask
            THEN /\ reqPc' = "teardown"
                 /\ response' = Reply(404, "Task not found", NoItem)
            ELSE /\ reqPc' = "submit_found"
                 /\ response' = NoResponse
  /\ reqOp' = "submit_bid"
  /\ reqData' = NoData
  /\ UNCHANGED <<now, tasks, bids, nextGen, scheduler, task_bids, winner, sweepVars>>

\* variant of SubmitBidCommit that replaces the Bids already stored for the task
SubmitBidCommitReplacing ==
  /\ reqOp = "submit_bid"
  /\ reqPc = "submit_found"
  /\ Cardinality(bids) < MaxBids
  /\ \E bidder \in Bidders, price \in Prices, completion_time \in CompletionTimes :
       LET bid == Bid(NextRowid(bids), reqTask.id, bidder, price, completion_time,
                      now, reqTask.gen) IN
       /\ bids' = {b \in bids : b.task_id # reqTask.id} \cup {bid}
       /\ reqData' = [kind |-> "bid", bidder |-> bidder, price |-> price,
                      completion_time |-> completion_time]
       /\ response' = Reply(201, "", BidJson(bid))
  /\ reqPc' = "teardown"
  /\ UNCHANGED <<now, tasks, nextGen, scheduler, reqOp, reqTaskId, reqTask,
                 task_bids, winner, sweepVars>>

\* lines 84-99: build the Bid from the JSON body, insert and commit it
SubmitBidCommit ==
  /\ reqOp = "submit_bid"
  /\ reqPc = "submit_found"
  /\ Cardinality(bids) < MaxBids
  /\ \E bidder \in Bidders, price \in Prices, completion_time \in CompletionTimes :
       LET bid == Bid(NextRowid(bids), reqTask.id, bidder, price, completion_time,
                      now, reqTask.gen) IN
       /\ bids' = bids \cup {bid}
       /\ reqData' = [kind |-> "bid", bidder |-> bidder, price |-> price,
                      completion_time |-> completion_time]
       /\ response' = Reply(201, "", BidJson(bid))
  /\ reqPc' = "teardown"
  /\ UNCHANGED <<now, tasks, nextGen, scheduler, reqOp, reqTaskId, reqTask,
                 task_bids, winner, sweepVars>>

\* a key of the JSON body is missing: the view raises before the insert
SubmitBidRaises ==
  /\ reqOp = "submit_bid"
  /\ reqPc = "submit_found"
  /\ reqData' = [kind |-> "malformed"]
  /\ response' = Reply(500, "exception", NoItem)
  /\ reqPc' = "teardown"
  /\ UNCHANGED <<now, tasks, bids, nextGen, scheduler, reqOp, reqTaskId, reqTask,
                 task_bids, winner, sweepVars>>

\* ---- POST /tasks/<task_id>/evaluate -------------------------------------
\* lines 104-106
EvaluateFind ==
  /\ reqPc = "idle"
  /\ \E task_id \in TaskIds :
       LET task == find_task(task_id) IN
       /\ reqTaskId' = task_id
       /\ reqTask' = task
       /\ IF task = NoTask
            THEN /\ reqPc' = "teardown"
                 /\ response' = Reply(404, "Task not found", NoItem)
            ELSE /\ reqPc' = "eval_found"
                 /\ response' = NoResponse
  /\ reqOp' = "evaluate_bids"
  /\ reqData' = NoData
  /\ UNCHANGED <<now, tasks, bids, nextGen, scheduler, task_bids, winner, sweepVars>>

\* lines 113-119: the winner for the criteria of the task found, NoBid if unknown
SelectWinner(criteria, all_bids) ==
  IF criteria = "lowest price" THEN PyMin(all_bids, [i \in 1..Len(all_bids) |-> PriceKey(all_bids[i])])
  ELSE IF criteria = "fastest completion" THEN PyMin(all_bids, [i \in 1..Len(all_bids) |-> CompletionKey(all_bids[i])])
  ELSE NoBid

\* variant of EvaluateQuery that closes the task once a winner is picked
EvaluateQueryClosing ==
  /\ reqOp = "evaluate_bids"
  /\ reqPc = "eval_found"
  /\ \E all_bids \in Orderings(FilterByTaskId(reqTaskId)) :
       /\ task_bids' = all_bids
       /\ IF all_bids = <<>>
            THEN /\ winner' = NoBid
                 /\ response' = Reply(404, "No bids found for this task", NoItem)
            ELSE LET w == SelectWinner(reqTask.criteria, all_bids) IN
                 /\ winner' = w
                 /\ response' = IF w = NoBid
                                  THEN Reply(400, "Unknown evaluation criteria", NoItem)
                                  ELSE Reply(200, "", WinnerJson(w))
  /\ reqPc' = "teardown"
  /\ tasks' = IF response'.status = 200 THEN tasks \ {reqTask} ELSE tasks
  /\ UNCHANGED <<now, bids, nextGen, scheduler, reqOp, reqTaskId, reqTask,
                 reqData, sweepVars>>

\* lines 108-126: query the bids of the task and pick the winner
EvaluateQuery ==
  /\ reqOp = "evaluate_bids"
  /\ reqPc = "eval_found"
  /\ \E all_bids \in Orderings(FilterByTaskId(reqTaskId)) :
       /\ task_bids' = all_bids
       /\ IF all_bids = <<>>
            THEN /\ winner' = NoBid
                 /\ response' = Reply(404, "No bids found for this task", NoItem)
            ELSE LET w == SelectWinner(reqTask.criteria, all_bids) IN
                 /\ winner' = w
                 /\ response' = IF w = NoBid
                                  THEN Reply(400, "Unknown evaluation criteria", NoItem)
                                  ELSE Reply(200, "", WinnerJson(w))
  /\ reqPc' = "teardown"
  /\ UNCHANGED <<now, tasks, bids, nextGen, scheduler, reqOp, reqTaskId, reqTask,
                 reqData, sweepVars>>

\* ---- end of a request: the application context is popped ----------------
\* shutdown_scheduler is a teardown_appcontext function, so it runs here, after
\* the view function has returned and its commit is made.  A job that is already
\* running is not interrupted.  The thread is then free for the next request.
RequestTeardown ==
  /\ reqPc = "teardown"
  /\ scheduler' = "stopped"
  /\ reqOp' = "none"
  /\ reqPc' = "idle"
  /\ reqTaskId' = 0
  /\ reqTask' = NoTask
  /\ reqData' = NoData
  /\ task_bids' = <<>>
  /\ winner' = NoBid
  /\ response' = NoResponse
  /\ UNCHANGED <<now, tasks, bids, nextGen, sweepVars>>

\* ---- close_expired_tasks, run by the interval job -----------------------
\* variant of SweepScan that also selects the tasks whose deadline is now
SweepScanInclusive ==
  /\ scheduler = "running"
  /\ sweepPc = "idle"
  /\ sweepNow' = now
  /\ expired_tasks' = {t \in tasks : t.deadline <= now}
  /\ sweepPc' = "delete"
  /\ closed' = 0
  /\ UNCHANGED <<now, tasks, bids, nextGen, scheduler, reqVars>>

\* lines 131-132: read the clock, select the expired tasks
SweepScan ==
  /\ scheduler = "running"
  /\ sweepPc = "idle"
  /\ sweepNow' = now
  /\ expired_tasks' = {t \in tasks : t.deadline < now}
  /\ sweepPc' = "delete"
  /\ closed' = 0
  /\ UNCHANGED <<now, tasks, bids, nextGen, scheduler, reqVars>>

\* lines 133-136: delete the selected Task rows, commit, print the count.
\* No statement touches table bid.
SweepCommit ==
  /\ sweepPc = "delete"
  /\ tasks' = {t \in tasks : \A e \in expired_tasks : e.id # t.id}
  /\ closed' = Cardinality(expired_tasks)
  /\ sweepPc' = "teardown"
  /\ UNCHANGED <<now, bids, nextGen, scheduler, reqVars, sweepNow, expired_tasks>>

\* lines 133-135 have no handler: a store error on the delete of one of the
\* selected rows (SQLite reports "database is locked", say) ends the flush, the
\* transaction is rolled back with every delete in it, and the exception leaves
\* the function before line 136 prints a count
SweepRaises ==
  /\ sweepPc = "delete"
  /\ expired_tasks # {}
  /\ closed' = 0
  /\ sweepPc' = "raised"
  /\ UNCHANGED <<now, tasks, bids, nextGen, scheduler, reqVars, sweepNow, expired_tasks>>

\* leaving "with app.app_context()" pops the context: shutdown_scheduler runs
SweepTeardown ==
  /\ sweepPc \in {"teardown", "raised"}
  /\ scheduler' = "stopped"
  /\ sweepPc' = "idle"
  /\ sweepNow' = 0
  /\ expired_tasks' = {}
  /\ closed' = 0
  /\ UNCHANGED <<now, tasks, bids, nextGen, reqVars>>

\* ---- the process is started again over the same database file ----------
\* bidding_system.db is kept, create_all() creates only missing tables, a new
\* scheduler is started; threads of the old process are gone
Restart ==
  /\ scheduler' = "running"
  /\ reqOp' = "none"
  /\ reqPc' = "idle"
  /\ reqTaskId' = 0
  /\ reqTask' = NoTask
  /\ reqData' = NoData
  /\ task_bids' = <<>>
  /\ winner' = NoBid
  /\ response' = NoResponse
  /\ sweepPc' = "idle"
  /\ sweepNow' = 0
  /\ expired_tasks' = {}
  /\ closed' = 0
  /\ UNCHANGED <<now, tasks, bids, nextGen>>

\* the steps of one run of the application
Run ==
  \/ Tick
  \/ CreateTask
  \/ CreateTaskRaises
  \/ SubmitBidFind
  \/ SubmitBidCommit
  \/ SubmitBidRaises
  \/ EvaluateFind
  \/ EvaluateQuery
  \/ RequestTeardown
  \/ SweepScan
  \/ SweepCommit
  \/ SweepRaises
  \/ SweepTeardown

Next ==
  \/ Run
  \/ Restart

Spec == Init /\ [][Next]_vars

\* one run of the application, from import on, under the scheduling the run
\* time gives: the clock advances, the interval trigger fires while the
\* scheduler runs, and a thread that has started goes on.  Nothing obliges a
\* client to send a request.
FairSpec ==
  /\ Init /\ [][Run]_vars
  /\ WF_vars(Tick)
  /\ WF_vars(SweepScan)
  /\ WF_vars(SweepCommit)
  /\ WF_vars(SweepTeardown)
  /\ WF_vars(SubmitBidCommit)
  /\ WF_vars(EvaluateQuery)
  /\ WF_vars(RequestTeardown)

TypeOK ==
  /\ now \in Times
  /\ scheduler \in {"running", "stopped"}
  /\ reqPc \in {"idle", "submit_found", "eval_found", "teardown"}
  /\ sweepPc \in {"idle", "delete", "teardown", "raised"}
  /\ Cardinality(bids) <= MaxBids
  /\ \A t1, t2 \in tasks : t1.id = t2.id => t1 = t2
  /\ \A b1, b2 \in bids : b1.id = b2.id => b1 = b2

\* ---- the claims ---------------------------------------------------------
Recognized == {"lowest price", "fastest completion"}

\* the step in which create_task inserts and commits a Task built from a well-formed body
CreateStep ==
  reqPc = "idle" /\ reqPc' = "teardown" /\ reqOp' = "create_task" /\ reqData'.kind = "task"

\* the step in which submit_bid, having found its task, handles a well-formed body
SubmitStep ==
  reqOp = "submit_bid" /\ reqPc = "submit_found" /\ reqPc' = "teardown" /\ reqData'.kind = "bid"

\* the step in which evaluate_bids, having found its task, queries the bids and answers
EvaluateStep ==
  reqOp = "evaluate_bids" /\ reqPc = "eval_found" /\ reqPc' = "teardown"

\* C1: once a sweep has committed its deletes, every stored Bid's task_id is the
\* id of a Task in the Task store (deleting a Task deletes its Bids).
C1_NoOrphanedBids ==
  sweepPc = "teardown" => \A b \in bids : \E t \in tasks : t.id = b.task_id

\* C2: submit_bid against a Task that is in the store and whose deadline is
\* earlier than the current time fails with a signal other than "Task not found"
\* (TaskExpired) and stores no Bid.
C2_ExpiredTaskRejected ==
  [][(SubmitStep /\ \E t \in tasks : t.id = reqTaskId /\ t.deadline < now)
       => (/\ response'.status >= 400
           /\ response'.error = "Task expired"
           /\ bids' = bids)]_vars

\* the state in which evaluate_bids has queried the bids and answered; the request
\* thread makes no further statement, so bids is the Bid store the query read
Evaluated ==
  reqOp = "evaluate_bids" /\ reqPc = "teardown" /\ reqTask # NoTask

\* C3: evaluate on a stored Task with criteria "lowest price" (the spec's
\* lowest_price) and at least one Bid stored under its id returns a stored Bid
\* with that task_id whose price is <= the price of every Bid stored under that id.
C3_LowestPriceWins ==
  (Evaluated /\ reqTask \in tasks /\ reqTask.criteria = "lowest price"
     /\ \E b \in bids : b.task_id = reqTaskId)
    => (/\ response.status = 200
        /\ winner \in bids
        /\ winner.task_id = reqTaskId
        /\ response.item.id = winner.id
        /\ response.item.price = winner.price
        /\ \A b \in bids : b.task_id = reqTaskId => winner.price <= b.price)

\* C3 witness: evaluate answered with a winner for a stored "lowest price" Task
\* that has two Bids of different price.
C3_Witness ==
  /\ Evaluated /\ response.status = 200
  /\ reqTask \in tasks /\ reqTask.criteria = "lowest price"
  /\ Len(task_bids) = 2
  /\ \E i \in 1..Len(task_bids) : task_bids[i].price > winner.price

\* C4: evaluate on a stored Task with criteria "fastest completion" (the spec's
\* fastest_completion) and at least one Bid stored under its id returns a stored
\* Bid with that task_id whose completion_time is <= the completion_time of every
\* Bid stored under that id.
C4_FastestCompletionWins ==
  (Evaluated /\ reqTask \in tasks /\ reqTask.criteria = "fastest completion"
     /\ \E b \in bids : b.task_id = reqTaskId)
    => (/\ response.status = 200
        /\ winner \in bids
        /\ winner.task_id = reqTaskId
        /\ response.item.id = winner.id
        /\ response.item.completion_time = winner.completion_time
        /\ \A b \in bids : b.task_id = reqTaskId
             => winner.completion_time <= b.completion_time)

\* C4 witness: evaluate answered with a winner for a stored "fastest completion"
\* Task that has two Bids of different completion_time.
C4_Witness ==
  /\ Evaluated /\ response.status = 200
  /\ reqTask \in tasks /\ reqTask.criteria = "fastest completion"
  /\ Len(task_bids) = 2
  /\ \E i \in 1..Len(task_bids) : task_bids[i].completion_time > winner.completion_time

\* C5: the winner evaluate returns depends on the Task and the set of its Bids
\* only: whatever order the Bid store returns the Bids in, the winner is the one
\* that was returned.
C5_TieBreakIndependentOfOrder ==
  (Evaluated /\ response.status = 200)
    => \A other \in Orderings({task_bids[i] : i \in 1..Len(task_bids)}) :
         SelectWinner(reqTask.criteria, other) = winner

\* C6: evaluate on a Task that is in the store and has no Bid stored under its id
\* answers NoBids ("No bids found for this task") and returns no Bid, whatever
\* the criteria.
C6_NoBids ==
  (Evaluated /\ reqTask \in tasks /\ ~ \E b \in bids : b.task_id = reqTaskId)
    => (/\ response.status = 404
        /\ response.error = "No bids found for this task"
        /\ response.item = NoItem
        /\ winner = NoBid)

\* C6 witness: evaluate answered NoBids for a stored Task while the Bid store
\* holds Bids of another task id.
C6_Witness ==
  /\ Evaluated
  /\ response.error = "No bids found for this task"
  /\ reqTask \in tasks
  /\ bids # {}

\* C7: the Bid evaluate returns for a Task was submitted against that very Task
\* row, not against an earlier, deleted Task that had the same id.
C7_NoCrossTaskWinner ==
  (Evaluated /\ response.status = 200)
    => (winner.task_id = reqTask.id /\ winner.task_gen = reqTask.gen)

\* C8: create_task with deadline <= current time fails with ValidationError
\* (bad request) and stores no Task; every stored Task has deadline > created_at.
C8_DeadlineInFuture ==
  [][/\ (CreateStep /\ reqData'.deadline <= now)
          => (response'.status = 400 /\ tasks' = tasks)
     /\ \A t \in tasks' : t.deadline > t.created_at]_vars

\* C9: create_task rejects an unrecognized criteria without storing a Task, every
\* stored Task has a recognized criteria, and evaluate on a stored Task with at
\* least one Bid never answers UnknownCriteria.
C9_CriteriaRecognized ==
  [][/\ (CreateStep /\ reqData'.criteria \notin Recognized)
          => (response'.status = 400 /\ tasks' = tasks)
     /\ \A t \in tasks' : t.criteria \in Recognized
     /\ (EvaluateStep /\ reqTask \in tasks /\ \E b \in bids : b.task_id = reqTaskId)
          => response'.error # "Unknown evaluation criteria"]_vars

\* C10: submit_bid with a negative price or a completion_time <= 0 fails with
\* ValidationError (bad request) and changes neither store; every stored Bid has
\* price >= 0 and completion_time > 0.
C10_BidValuesValidated ==
  [][/\ (SubmitStep /\ (reqData'.price < 0 \/ reqData'.completion_time <= 0))
          => (response'.status = 400 /\ tasks' = tasks /\ bids' = bids)
     /\ \A b \in bids' : b.price >= 0 /\ b.completion_time > 0]_vars

\* the step in which submit_bid or evaluate_bids looks its task up
FindStep ==
  reqPc = "idle" /\ reqOp' \in {"submit_bid", "evaluate_bids"}

\* C11: submit_bid and evaluate called with a task id under which no Task is in
\* the store answer TaskNotFound (404 "Task not found"), end there, and leave
\* the Task store and the Bid store unchanged.
C11_TaskNotFound ==
  [][(FindStep /\ ~ \E t \in tasks : t.id = reqTaskId')
       => (/\ response'.status = 404
           /\ response'.error = "Task not found"
           /\ response'.item = NoItem
           /\ reqPc' = "teardown"
           /\ tasks' = tasks
           /\ bids' = bids)]_vars

\* C11 witness: submit_bid answered TaskNotFound for an id that is not in the
\* store while another Task and a Bid are stored.
C11_Witness ==
  /\ reqOp = "submit_bid" /\ reqPc = "teardown"
  /\ response.error = "Task not found"
  /\ ~ \E t \in tasks : t.id = reqTaskId
  /\ tasks # {} /\ bids # {}

\* a step of evaluate_bids: the lookup, the query and answer, or the end of the request
EvaluateAnyStep ==
  \/ reqPc = "idle" /\ reqOp' = "evaluate_bids"
  \/ reqOp = "evaluate_bids" /\ reqPc' # reqPc

\* C12: evaluate is a pure query: whatever it answers, none of its steps changes
\* the Task store or the Bid store, so the Task evaluated is not closed and
\* what the stores accept afterwards is what they accepted before.
C12_EvaluateIsPure ==
  [][EvaluateAnyStep => (tasks' = tasks /\ bids' = bids)]_vars

\* C12 witness: evaluate answered with a winner and the Task it evaluated is
\* still stored, with its Bids.
C12_Witness ==
  /\ Evaluated /\ response.status = 200
  /\ reqTask \in tasks
  /\ winner \in bids
  /\ \A i \in 1..Len(task_bids) : task_bids[i] \in bids

\* C13: a submit_bid that races a sweep never commits a Bid for a Task that is
\* no longer in the store: when submit_bid stores a Bid, the Task row it found
\* is in the store at that moment; otherwise the submit is rejected and stores
\* nothing.
C13_NoBidForDeletedTask ==
  [][SubmitStep
       => IF reqTask \in tasks
            THEN TRUE
            ELSE response'.status >= 400 /\ bids' = bids]_vars

\* C14: every Task whose deadline has passed is eventually removed from the
\* Task store by the periodic sweep, and the periodic sweep fires again and
\* again, however many requests or sweeps have run.
C14_ExpiredEventuallyPurged ==
  /\ \A g \in 1..MaxTasks :
       (\E t \in tasks : t.gen = g /\ t.deadline < now)
         ~> ~ (\E t \in tasks : t.gen = g)
  /\ []<>(sweepPc = "delete")

\* Within one run a stopped scheduler stays stopped and starts no sweep: with
\* no request coming in, this is where the program itself comes to rest.
SchedulerStaysStopped ==
  [][scheduler = "stopped"
       => (scheduler' = "stopped" /\ (sweepPc = "idle" => sweepPc' = "idle"))]_vars

\* the steps of a sweep: its scan, a step of another thread while it has scanned
\* and not yet deleted, and its commit
SweepScanStep == sweepPc = "idle" /\ sweepPc' = "delete"

SweepWaitStep == sweepPc = "delete" /\ sweepPc' = "delete"

SweepCommitStep == sweepPc = "delete" /\ sweepPc' = "teardown"

\* C15: a sweep that reads clock value now selects exactly the stored Tasks with
\* deadline < now; until it commits none of the scanned Tasks or Bids goes away;
\* its commit removes every selected Task, keeps every Task with deadline >= now
\* (deadline = now included) as it is, adds nothing and leaves the Bids alone.
C15_SweepRemovesExactlyExpired ==
  [][/\ SweepScanStep
          => (/\ sweepNow' = now
              /\ expired_tasks' = {t \in tasks : t.deadline < now}
              /\ tasks' = tasks /\ bids' = bids)
     /\ SweepWaitStep
          => (/\ sweepNow' = sweepNow /\ expired_tasks' = expired_tasks
              /\ tasks \subseteq tasks' /\ bids \subseteq bids')
     /\ SweepCommitStep
          => (/\ \A t \in expired_tasks : t \notin tasks'
              /\ \A t \in tasks : t.deadline >= sweepNow => t \in tasks'
              /\ tasks' \subseteq tasks
              /\ bids' = bids)]_vars

\* C15 witness: a sweep has committed, it removed a Task, and a Task whose
\* deadline equals the clock value the sweep read is still stored, with a Bid.
C15_Witness ==
  /\ sweepPc = "teardown" /\ closed >= 1
  /\ \E t \in tasks : /\ t.deadline = sweepNow
                      /\ \E b \in bids : b.task_id = t.id /\ b.task_gen = t.gen

\* C17: when the delete of one expired Task fails with a store error, the other
\* expired Tasks the sweep selected are removed all the same, and the reported
\* count is the number of Tasks actually removed.
C17_SweepFailureIsPerTask ==
  [][(sweepPc = "delete" /\ sweepPc' = "raised")
       => (/\ Cardinality(tasks \ tasks') >= Cardinality(expired_tasks) - 1
           /\ closed' = Cardinality(tasks \ tasks'))]_vars

\* C16: once a sweep has deleted Task T, a later evaluate or submit_bid on T's id
\* (no Task stored under it) answers TaskNotFound and stores nothing; and no
\* evaluate reads a half-deleted Task: every Bid it reads belongs to a Task row
\* that is still in the store.
C16_NoHalfDeletedTask ==
  [][/\ (FindStep /\ ~ \E t \in tasks : t.id = reqTaskId')
          => (/\ response'.status = 404 /\ response'.error = "Task not found"
              /\ reqPc' = "teardown" /\ bids' = bids)
     /\ EvaluateStep
          => \A i \in 1..Len(task_bids') :
               \E t \in tasks : t.gen = task_bids'[i].task_gen]_vars

\* the steps of create_task and of submit_bid that make or could make a statement
CreateAnyStep == reqPc = "idle" /\ reqOp' = "create_task"

SubmitAnyStep ==
  \/ reqPc = "idle" /\ reqOp' = "submit_bid"
  \/ reqOp = "submit_bid" /\ reqPc = "submit_found" /\ reqPc' = "teardown"

\* C18: no step changes a stored record (a row that keeps its id keeps every
\* field); create_task and submit_bid only add; a Task leaves the store only in
\* the commit of a sweep, and a Bid only in a step that removes its parent Task.
C18_RecordsNeverChange ==
  [][/\ \A t \in tasks : \A u \in tasks' : t.id = u.id => t = u
     /\ \A b \in bids : \A c \in bids' : b.id = c.id => b = c
     /\ CreateAnyStep => (tasks \subseteq tasks' /\ bids' = bids)
     /\ SubmitAnyStep => (tasks' = tasks /\ bids \subseteq bids')
     /\ (tasks \ tasks' # {}) => SweepCommitStep
     /\ \A b \in bids \ bids' : \E t \in tasks \ tasks' : t.id = b.task_id]_vars

\* C18 witness: submit_bid has stored a second Bid next to one that was stored
\* before, for a stored Task.
C18_Witness ==
  /\ reqOp = "submit_bid" /\ reqPc = "teardown" /\ response.status = 201
  /\ reqTask \in tasks
  /\ Cardinality(bids) = 2
====
